---- MODULE Spec2Model ----
(***************************************************************************)
(* A model of the CHIP-8 interpreter of nuked44/chip_8: the machine state  *)
(* of Chip (src/chip.rs), its instruction executor execute_inst, the frame *)
(* loop run, and the terminal interface Tui (src/screen/tui.rs).           *)
(***************************************************************************)
EXTENDS Integers, Sequences, FiniteSets, TLC

\* ------------------------------------------------------------------------
\* Build-time configuration (crate::config)
\* ------------------------------------------------------------------------
MEMSIZE == 4096
PROG_POS_START == 512
FONT_POS_START == 80
SCREEN_WIDTH == 64
SCREEN_HEIGHT == 32
INSTRUCTION_FREQUENCY == 600
SCREEN_REFRESH_RATE == 60

\* ------------------------------------------------------------------------
\* Bounds of the model
\* ------------------------------------------------------------------------
\* longest queue of pending terminal events
MaxEvents == 2
\* largest frame duration (in clock ticks) the pacing step draws
MaxElapsed == 1

\* ------------------------------------------------------------------------
\* Machine integers
\* ------------------------------------------------------------------------
RECURSIVE BitOr(_, _)
\* x | y on unsigned integers
BitOr(x, y) ==
  IF x = 0 THEN y
  ELSE IF y = 0 THEN x
  ELSE (IF x % 2 = 1 \/ y % 2 = 1 THEN 1 ELSE 0) + 2 * BitOr(x \div 2, y \div 2)

RECURSIVE BitAnd(_, _)
\* x & y on unsigned integers
BitAnd(x, y) ==
  IF x = 0 \/ y = 0 THEN 0
  ELSE (IF x % 2 = 1 /\ y % 2 = 1 THEN 1 ELSE 0) + 2 * BitAnd(x \div 2, y \div 2)

RECURSIVE BitXor(_, _)
\* x ^ y on unsigned integers
BitXor(x, y) ==
  IF x = 0 THEN y
  ELSE IF y = 0 THEN x
  ELSE (IF (x % 2) # (y % 2) THEN 1 ELSE 0) + 2 * BitXor(x \div 2, y \div 2)

\* Option<T>: None is the empty set, Some(v) the singleton {v}
None == {}
Some(v) == {v}
Unwrap(o) == CHOOSE v \in o : TRUE

\* ------------------------------------------------------------------------
\* State
\* ------------------------------------------------------------------------
VARIABLES
  running,          \* Chip.running
  memory,           \* Chip.memory : [u8; MEMSIZE], as the bytes stored so far (the rest are 0)
  pc,               \* Chip.pc : u16
  registers,        \* Chip.registers : [v |-> v0..vf, i |-> I]
  stack,            \* Chip.stack : [u16; 16], slot s at place s + 1
  stackpointer,     \* Chip.stackpointer : u8
  delay_timer,      \* Chip.delay_timer : u8
  sound_timer,      \* Chip.sound_timer : u8
  keyboard,         \* Chip.keyboard : Option<u8>
  release_key_wait, \* Chip.release_key_wait : Option<u8>
  pixel_bitmap,     \* Tui.pixel_bitmap, as the set of indices that hold true
  events,           \* the terminal's queue of unread input events
  overflow_checks,  \* whether the build traps integer overflow (debug) or wraps
  panic,            \* the panic that ended the process, if any
  at,               \* where the embedding program is: new, loaded, or inside run
  executed,         \* run: the index of the for loop over a frame's instructions
  frame_log         \* run: the calls made so far in the current frame, in order

chip == <<running, memory, pc, registers, stack, stackpointer, delay_timer,
          sound_timer, keyboard, release_key_wait>>
tui == <<pixel_bitmap, events>>
loop == <<at, executed, frame_log>>
vars == <<chip, tui, overflow_checks, panic, loop>>

NoPanic == [kind |-> "none", val |-> 0]
Panicked(kind, v) == [kind |-> kind, val |-> v]

\* ------------------------------------------------------------------------
\* Register (chip.rs 8-73)
\* ------------------------------------------------------------------------
\* the sixteen fields v0..vf are the sequence v, register reg at place reg + 1
set_reg_v(regs, reg, val) == [regs EXCEPT !.v[reg + 1] = val]
get_reg_v(regs, reg) == regs.v[reg + 1]

\* ------------------------------------------------------------------------
\* Tui (screen/tui.rs)
\* ------------------------------------------------------------------------
\* an event that is no key of the pad (another key, a resize, the mouse)
OTHER_EVENT == 16

\* Tui::is_key_pressed: poll the terminal; when an event is pending read it,
\* and answer whether it is a press of the wanted key
is_key_pressed(evs, target_key) == evs # <<>> /\ Head(evs) = target_key
after_is_key_pressed(evs) == IF evs # <<>> THEN Tail(evs) ELSE evs

\* Tui::get_key: keys 0x0..0xF poll the terminal, anything else is not pressed
get_key(evs, key) == key \in 0..15 /\ is_key_pressed(evs, key)
after_get_key(evs, key) == IF key \in 0..15 THEN after_is_key_pressed(evs) ELSE evs

\* Tui::set_pixel: the bitmap after the call, and whether a pixel was erased
set_pixel_clipped(x, y) == x >= SCREEN_WIDTH \/ y >= SCREEN_HEIGHT
set_pixel(bitmap, x, y, val) ==
  IF set_pixel_clipped(x, y) THEN [bitmap |-> bitmap, erased |-> FALSE]
  ELSE LET idx == x + y * SCREEN_WIDTH
           before == idx \in bitmap
           now == (before # val)
       IN [bitmap |-> IF now THEN bitmap \cup {idx} ELSE bitmap \ {idx},
           erased |-> (~now /\ before)]

RECURSIVE draw_loop(_, _, _, _, _, _)
\* the two nested loops of Tui::draw_sprite, k = 8 * iteration + bit
draw_loop(bitmap, pixel_erased, x, y, sprite, k) ==
  IF k >= 8 * Len(sprite) THEN [bitmap |-> bitmap, erased |-> pixel_erased]
  ELSE LET iteration == k \div 8
           bit == k % 8
           line == sprite[iteration + 1]
           r == set_pixel(bitmap, x + bit, y + iteration,
                          BitAnd(line, 128 \div (2 ^ bit)) # 0)
       IN draw_loop(r.bitmap, pixel_erased \/ r.erased, x, y, sprite, k + 1)

\* Tui::draw_sprite
draw_sprite(bitmap, x, y, sprite) ==
  draw_loop(bitmap, FALSE, x % SCREEN_WIDTH, y % SCREEN_HEIGHT, sprite, 0)

\* Tui::clear_screen (the bitmap; update_screen only prints)
clear_screen(bitmap) == {}

\* ------------------------------------------------------------------------
\* Chip::execute_inst: fetch and decode (chip.rs 168-174)
\* ------------------------------------------------------------------------
\* self.memory[addr] for addr < MEMSIZE: Chip::new zeroes every byte
byte_at(mem, addr) == IF addr \in DOMAIN mem THEN mem[addr] ELSE 0

val == byte_at(memory, pc) * 256 + byte_at(memory, pc + 1)
a == val \div 4096
b == (val \div 256) % 16
c == (val \div 16) % 16
d == val % 16

\* the operand expressions as the source writes them
addr_operand == BitOr(BitOr(b, c), d)
byte_operand == BitOr(c, d) % 256
low_byte_0 == BitOr(c * 16, d)
\* a sub-opcode formed from both nibbles of the low byte
low_byte_EF_both_nibbles == BitOr(c * 16, d)
low_byte_EF == BitOr(c \div 16, d)

Fatal(kind, v) == /\ panic' = Panicked(kind, v)
                  /\ UNCHANGED <<chip, tui>>

\* what an instruction leaves alone: everything but pc and what it names
Rest(changed) ==
  /\ UNCHANGED <<running, keyboard>>
  /\ IF "memory" \in changed THEN TRUE ELSE UNCHANGED memory
  /\ IF "registers" \in changed THEN TRUE ELSE UNCHANGED registers
  /\ IF "stack" \in changed THEN TRUE ELSE UNCHANGED <<stack, stackpointer>>
  /\ IF "timers" \in changed THEN TRUE ELSE UNCHANGED <<delay_timer, sound_timer>>
  /\ IF "latch" \in changed THEN TRUE ELSE UNCHANGED release_key_wait
  /\ IF "screen" \in changed THEN TRUE ELSE UNCHANGED pixel_bitmap
  /\ IF "events" \in changed THEN TRUE ELSE UNCHANGED events
  /\ panic' = NoPanic

\* ------------------------------------------------------------------------
\* Chip::execute_inst: the instructions (chip.rs 175-441)
\* ------------------------------------------------------------------------
\* 00E0 Cls
OpCls ==
  /\ pixel_bitmap' = clear_screen(pixel_bitmap)
  /\ pc' = pc + 2
  /\ Rest({"screen"})

\* 00EE Ret: stackpointer -= 1 traps in a build with overflow checks and
\* wraps to 255 otherwise, where the index into the stack then panics
OpRet ==
  IF stackpointer = 0
  THEN IF overflow_checks
       THEN Fatal("attempt to subtract with overflow", stackpointer)
       ELSE /\ stackpointer' = 255
            /\ panic' = Panicked("index out of bounds", 255)
            /\ UNCHANGED <<running, memory, pc, registers, stack, delay_timer,
                           sound_timer, keyboard, release_key_wait, tui>>
  ELSE /\ stackpointer' = stackpointer - 1
       /\ pc' = stack[(stackpointer - 1) + 1] + 2
       /\ UNCHANGED stack
       /\ Rest({"stack"})

\* 0nnn other than 00E0 and 00EE: does nothing
OpEmpty ==
  /\ pc' = pc + 2
  /\ Rest({})

\* 1nnn Jmp
OpJmp ==
  /\ pc' = addr_operand
  /\ Rest({})

\* a call that pushes the address of the next instruction instead
OpCall_PushNext ==
  IF stackpointer >= 16
  THEN Fatal("index out of bounds", stackpointer)
  ELSE /\ stack' = [stack EXCEPT ![stackpointer + 1] = pc + 2]
       /\ stackpointer' = stackpointer + 1
       /\ pc' = addr_operand
       /\ Rest({"stack"})

\* 2nnn Call
OpCall ==
  IF stackpointer >= 16
  THEN Fatal("index out of bounds", stackpointer)
  ELSE /\ stack' = [stack EXCEPT ![stackpointer + 1] = pc]
       /\ stackpointer' = stackpointer + 1
       /\ pc' = addr_operand
       /\ Rest({"stack"})

\* a carry raised already at a sum of 255
overflowing_add_from_255(x, y) == [res |-> (x + y) % 256, overflow |-> (x + y >= 255)]
\* u8::overflowing_add: the wrapped sum and whether it overflowed
overflowing_add(x, y) == [res |-> (x + y) % 256, overflow |-> (x + y > 255)]
\* a borrow reported already when the operands are equal
overflowing_sub_on_equal(x, y) == [res |-> (x - y + 256) % 256, overflow |-> (x <= y)]
\* u8::overflowing_sub: the wrapped difference and whether it borrowed
overflowing_sub(x, y) == [res |-> (x - y + 256) % 256, overflow |-> (x < y)]
\* bool as u8
as_u8(flag) == IF flag THEN 1 ELSE 0

\* 3xkk skip if vx == byte
OpSkipEqByte ==
  /\ pc' = IF get_reg_v(registers, b) = byte_operand THEN pc + 4 ELSE pc + 2
  /\ Rest({})

\* 4xkk skip if vx != byte
OpSkipNeByte ==
  /\ pc' = IF get_reg_v(registers, b) # byte_operand THEN pc + 4 ELSE pc + 2
  /\ Rest({})

\* 5xy_ skip if vx == vy
OpSkipEqReg ==
  /\ pc' = IF get_reg_v(registers, b) = get_reg_v(registers, c) THEN pc + 4 ELSE pc + 2
  /\ Rest({})

\* 6xkk load byte into vx
OpLoadByte ==
  /\ registers' = set_reg_v(registers, b, byte_operand)
  /\ pc' = pc + 2
  /\ Rest({"registers"})

\* 7xkk add byte to vx
OpAddByte ==
  LET r == overflowing_add(get_reg_v(registers, b \div 256), byte_operand)
  IN /\ registers' = set_reg_v(registers, b, r.res)
     /\ pc' = pc + 2
     /\ Rest({"registers"})

\* 8xy0 load vy into vx
OpLoadReg ==
  /\ registers' = set_reg_v(registers, b, get_reg_v(registers, c))
  /\ pc' = pc + 2
  /\ Rest({"registers"})

\* 8xy1 or
OpOr ==
  LET v == BitOr(get_reg_v(registers, b), get_reg_v(registers, c))
  IN /\ registers' = set_reg_v(set_reg_v(registers, b, v), 15, 0)
     /\ pc' = pc + 2
     /\ Rest({"registers"})

\* 8xy2 and
OpAnd ==
  LET v == BitAnd(get_reg_v(registers, b), get_reg_v(registers, c))
  IN /\ registers' = set_reg_v(set_reg_v(registers, b, v), 15, 0)
     /\ pc' = pc + 2
     /\ Rest({"registers"})

\* 8xy3 xor
OpXor ==
  LET v == BitXor(get_reg_v(registers, b), get_reg_v(registers, c))
  IN /\ registers' = set_reg_v(set_reg_v(registers, b, v), 15, 0)
     /\ pc' = pc + 2
     /\ Rest({"registers"})

\* 8xy4 add vy to vx, VF = carry
OpAddReg ==
  LET r == overflowing_add(get_reg_v(registers, b), get_reg_v(registers, c))
  IN /\ registers' = set_reg_v(set_reg_v(registers, b, r.res), 15, as_u8(r.overflow))
     /\ pc' = pc + 2
     /\ Rest({"registers"})

\* 8xy5 subtract vy from vx, VF = not borrow
OpSubReg ==
  LET r == overflowing_sub(get_reg_v(registers, b), get_reg_v(registers, c))
  IN /\ registers' = set_reg_v(set_reg_v(registers, b, r.res), 15, as_u8(~r.overflow))
     /\ pc' = pc + 2
     /\ Rest({"registers"})

\* 8xy6 shift right
OpShr ==
  LET v == get_reg_v(registers, c)
  IN /\ registers' = set_reg_v(set_reg_v(registers, b, v \div 2), 15, BitAnd(v, 1))
     /\ pc' = pc + 2
     /\ Rest({"registers"})

\* 8xy7 subtract vx from vy, VF = not borrow
OpSubnReg ==
  LET r == overflowing_sub(get_reg_v(registers, c), get_reg_v(registers, b))
  IN /\ registers' = set_reg_v(set_reg_v(registers, b, r.res), 15, as_u8(~r.overflow))
     /\ pc' = pc + 2
     /\ Rest({"registers"})

\* 8xyE shift left
OpShl ==
  LET v == get_reg_v(registers, c)
  IN /\ registers' = set_reg_v(set_reg_v(registers, b, (v * 2) % 256), 15,
                               BitAnd(v \div 128, 1))
     /\ pc' = pc + 2
     /\ Rest({"registers"})

\* 9xy_ skip if vx != vy
OpSkipNeReg ==
  /\ pc' = IF get_reg_v(registers, b) # get_reg_v(registers, c) THEN pc + 4 ELSE pc + 2
  /\ Rest({})

\* Annn load addr into I
OpLoadI ==
  /\ registers' = [registers EXCEPT !.i = addr_operand]
  /\ pc' = pc + 2
  /\ Rest({"registers"})

\* Bnnn jump to addr + V0: b | c | d + v0, where + binds tighter than |
OpJmpV0 ==
  /\ pc' = BitOr(BitOr(b, c), d + get_reg_v(registers, 0))
  /\ Rest({})

\* Cxkk random byte & byte into vx
OpRnd ==
  \E rnd \in 0..255 :
    /\ registers' = set_reg_v(registers, b, BitAnd(rnd, byte_operand))
    /\ pc' = pc + 2
    /\ Rest({"registers"})

\* Dxyn draw the n-byte sprite at I, VF = collision
OpDraw ==
  IF d > 0 /\ registers.i + d - 1 >= MEMSIZE
  THEN Fatal("index out of bounds", registers.i + d - 1)
  ELSE LET sprite_buffer == [k \in 1..d |-> byte_at(memory, registers.i + k - 1)]
           r == draw_sprite(pixel_bitmap, get_reg_v(registers, b),
                            get_reg_v(registers, c), sprite_buffer)
       IN /\ pixel_bitmap' = r.bitmap
          /\ registers' = set_reg_v(registers, 15, as_u8(r.erased))
          /\ pc' = pc + 2
          /\ Rest({"screen", "registers"})

\* Ex9E skip if the key in vx is pressed
OpSkipKey ==
  LET target == get_reg_v(registers, b)
  IN /\ pc' = IF get_key(events, target) THEN pc + 4 ELSE pc + 2
     /\ events' = after_get_key(events, target)
     /\ Rest({"events"})

\* ExA1 skip if the key in vx is not pressed
OpSkipNoKey ==
  LET target == get_reg_v(registers, b)
  IN /\ pc' = IF ~get_key(events, target) THEN pc + 4 ELSE pc + 2
     /\ events' = after_get_key(events, target)
     /\ Rest({"events"})

\* Fx07 vx = delay timer
OpGetDelay ==
  /\ registers' = set_reg_v(registers, b, delay_timer)
  /\ pc' = pc + 2
  /\ Rest({"registers"})

\* a release-wait that advances without asking whether the key is still down
KeyWaitRelease_Unchecked ==
  /\ release_key_wait' = None
  /\ pc' = pc + 2
  /\ Rest({"latch"})

\* Fx0A with the latch set: wait for the latched key to be released
KeyWaitRelease ==
  LET key == Unwrap(release_key_wait)
  IN /\ events' = after_get_key(events, key)
     /\ IF ~get_key(events, key)
        THEN /\ release_key_wait' = None
             /\ pc' = pc + 2
        ELSE UNCHANGED <<release_key_wait, pc>>
     /\ Rest({"events", "latch"})

\* a key-wait that moves on to the next instruction as soon as it has latched
KeyWaitPress_Advancing ==
  IF keyboard # None
  THEN /\ registers' = set_reg_v(registers, b, Unwrap(keyboard))
       /\ release_key_wait' = Some(Unwrap(keyboard))
       /\ pc' = pc + 2
       /\ Rest({"registers", "latch"})
  ELSE /\ UNCHANGED pc
       /\ Rest({})

\* Fx0A with the latch clear: take the key of the keyboard field, if any
KeyWaitPress ==
  IF keyboard # None
  THEN /\ registers' = set_reg_v(registers, b, Unwrap(keyboard))
       /\ release_key_wait' = Some(Unwrap(keyboard))
       /\ UNCHANGED pc
       /\ Rest({"registers", "latch"})
  ELSE /\ UNCHANGED pc
       /\ Rest({})

\* Fx0A wait for a key press, store the key in vx
OpKeyWait ==
  IF release_key_wait # None THEN KeyWaitRelease ELSE KeyWaitPress

\* Fx15 delay timer = vx
OpSetDelay ==
  /\ delay_timer' = get_reg_v(registers, b)
  /\ UNCHANGED sound_timer
  /\ pc' = pc + 2
  /\ Rest({"timers"})

\* Fx18 sound timer = vx
OpSetSound ==
  /\ sound_timer' = get_reg_v(registers, b)
  /\ UNCHANGED delay_timer
  /\ pc' = pc + 2
  /\ Rest({"timers"})

\* Fx1E I += vx (a u16 sum: traps or wraps as the build decides)
OpAddI ==
  LET sum == registers.i + get_reg_v(registers, b)
  IN IF sum >= 65536 /\ overflow_checks
     THEN Fatal("attempt to add with overflow", sum)
     ELSE /\ registers' = [registers EXCEPT !.i = sum % 65536]
          /\ pc' = pc + 2
          /\ Rest({"registers"})

\* Fx29 I = address of the font character of vx
OpFont ==
  /\ registers' = [registers EXCEPT !.i = (FONT_POS_START + 5 * get_reg_v(registers, b)) % 65536]
  /\ pc' = pc + 2
  /\ Rest({"registers"})

\* memory after storing bytes[1..n] at base, base + 1, ...; a store past the
\* end of memory panics with the earlier ones done
store_bytes(mem, base, bytes, n) ==
  [addr \in DOMAIN mem \cup {base + k - 1 : k \in 1..n} |->
     IF addr >= base /\ addr < base + n THEN bytes[addr - base + 1] ELSE mem[addr]]
\* how many of n stores from base on fall inside memory
in_bounds_count(base, n) ==
  IF base >= MEMSIZE THEN 0 ELSE IF base + n > MEMSIZE THEN MEMSIZE - base ELSE n

\* Fx33 store the BCD digits of vx at I, I+1, I+2
OpBcd ==
  LET v == get_reg_v(registers, b)
      digits == <<v \div 100, (v % 100) \div 10, (v % 100) % 10>>
      n == in_bounds_count(registers.i, 3)
  IN IF n < 3
     THEN /\ memory' = store_bytes(memory, registers.i, digits, n)
          /\ panic' = Panicked("index out of bounds", registers.i + n)
          /\ UNCHANGED <<running, pc, registers, stack, stackpointer, delay_timer,
                         sound_timer, keyboard, release_key_wait, tui>>
     ELSE /\ memory' = store_bytes(memory, registers.i, digits, 3)
          /\ pc' = pc + 2
          /\ Rest({"memory"})

\* Fx55 store v0..vx at I, I += x + 1
OpStoreRegs ==
  LET i == registers.i
      bytes == [k \in 1..(b + 1) |-> get_reg_v(registers, k - 1)]
      n == in_bounds_count(i, b + 1)
  IN IF n < b + 1
     THEN /\ memory' = store_bytes(memory, i, bytes, n)
          /\ panic' = Panicked("index out of bounds", i + n)
          /\ UNCHANGED <<running, pc, registers, stack, stackpointer, delay_timer,
                         sound_timer, keyboard, release_key_wait, tui>>
     ELSE /\ memory' = store_bytes(memory, i, bytes, b + 1)
          /\ registers' = [registers EXCEPT !.i = i + b + 1]
          /\ pc' = pc + 2
          /\ Rest({"memory", "registers"})

\* Fx65 load v0..vx from I, I += x + 1
OpLoadRegs ==
  LET i == registers.i
      n == in_bounds_count(i, b + 1)
      loaded == [registers EXCEPT !.v = [r \in 1..16 |->
                   IF r - 1 < n THEN byte_at(memory, i + r - 1) ELSE registers.v[r]]]
  IN IF n < b + 1
     THEN /\ registers' = loaded
          /\ panic' = Panicked("index out of bounds", i + n)
          /\ UNCHANGED <<running, memory, pc, stack, stackpointer, delay_timer,
                         sound_timer, keyboard, release_key_wait, tui>>
     ELSE /\ registers' = [loaded EXCEPT !.i = i + b + 1]
          /\ pc' = pc + 2
          /\ Rest({"registers"})

IllegalInstruction == Fatal("Illegal instruction", val)

\* the match on the ALU sub-opcode d
Family8 ==
  CASE d = 0 -> OpLoadReg
    [] d = 1 -> OpOr
    [] d = 2 -> OpAnd
    [] d = 3 -> OpXor
    [] d = 4 -> OpAddReg
    [] d = 5 -> OpSubReg
    [] d = 6 -> OpShr
    [] d = 7 -> OpSubnReg
    [] d = 14 -> OpShl
    [] OTHER -> IllegalInstruction

\* the match on (c >> 4) | d of family E
FamilyE ==
  CASE low_byte_EF = 158 -> OpSkipKey
    [] low_byte_EF = 161 -> OpSkipNoKey
    [] OTHER -> IllegalInstruction

\* the match on (c >> 4) | d of family F
FamilyF ==
  CASE low_byte_EF = 7 -> OpGetDelay
    [] low_byte_EF = 10 -> OpKeyWait
    [] low_byte_EF = 21 -> OpSetDelay
    [] low_byte_EF = 24 -> OpSetSound
    [] low_byte_EF = 30 -> OpAddI
    [] low_byte_EF = 41 -> OpFont
    [] low_byte_EF = 51 -> OpBcd
    [] low_byte_EF = 85 -> OpStoreRegs
    [] low_byte_EF = 101 -> OpLoadRegs
    [] OTHER -> IllegalInstruction

\* the match on (c << 4) | d of family 0
Family0 ==
  CASE low_byte_0 = 224 -> OpCls
    [] low_byte_0 = 238 -> OpRet
    [] OTHER -> OpEmpty

\* Chip::execute_inst: the fetch indexes memory at pc and pc + 1
execute_inst ==
  IF pc >= MEMSIZE THEN Fatal("index out of bounds", pc)
  ELSE IF pc + 1 >= MEMSIZE THEN Fatal("index out of bounds", pc + 1)
  ELSE CASE a = 0 -> Family0
         [] a = 1 -> OpJmp
         [] a = 2 -> OpCall
         [] a = 3 -> OpSkipEqByte
         [] a = 4 -> OpSkipNeByte
         [] a = 5 -> OpSkipEqReg
         [] a = 6 -> OpLoadByte
         [] a = 7 -> OpAddByte
         [] a = 8 -> Family8
         [] a = 9 -> OpSkipNeReg
         [] a = 10 -> OpLoadI
         [] a = 11 -> OpJmpV0
         [] a = 12 -> OpRnd
         [] a = 13 -> OpDraw
         [] a = 14 -> FamilyE
         [] a = 15 -> FamilyF

\* ------------------------------------------------------------------------
\* Construction and loading
\* ------------------------------------------------------------------------
\* Register as Chip::new builds it
new_registers == [v |-> [r \in 1..16 |-> 0], i |-> 0]

\* Chip::new(prog_counter, Tui::new()), in a build that traps overflow or not
new(prog_counter, regs, checks) ==
  /\ running = FALSE
  /\ memory = [addr \in {} |-> 0]
  /\ pc = prog_counter
  /\ registers = regs
  /\ stack = [s \in 1..16 |-> 0]
  /\ stackpointer = 0
  /\ delay_timer = 0
  /\ sound_timer = 0
  /\ keyboard = None
  /\ release_key_wait = None
  /\ pixel_bitmap = {}
  /\ events = <<>>
  /\ overflow_checks = checks
  /\ panic = NoPanic
  /\ at = "new"
  /\ executed = 0
  /\ frame_log = <<>>

\* the array font of Chip::load_font: sixteen glyphs of five bytes
font ==
  << \hF0, \h90, \h90, \h90, \hF0,
     \h20, \h60, \h20, \h20, \h70,
     \hF0, \h10, \hF0, \h80, \hF0,
     \hF0, \h10, \hF0, \h10, \hF0,
     \h90, \h90, \hF0, \h10, \h10,
     \hF0, \h80, \hF0, \h10, \hF0,
     \hF0, \h80, \hF0, \h90, \hF0,
     \hF0, \h10, \h20, \h40, \h40,
     \hF0, \h90, \hF0, \h90, \hF0,
     \hF0, \h90, \hF0, \h10, \hF0,
     \hF0, \h90, \hF0, \h90, \h90,
     \hE0, \h90, \hE0, \h90, \hE0,
     \hF0, \h80, \h80, \h80, \hF0,
     \hE0, \h90, \h90, \h90, \hE0,
     \hF0, \h80, \hF0, \h80, \hF0,
     \hF0, \h80, \hF0, \h80, \h80 >>

\* Chip::load_font: the memory it would leave. It is private and nothing in
\* the crate calls it, Chip::new included, so no action of the model applies it.
load_font(mem) == store_bytes(mem, FONT_POS_START, font, Len(font))

\* Chip::load_prog
load_prog(prog) ==
  /\ at = "new"
  /\ panic = NoPanic
  /\ LET n == in_bounds_count(PROG_POS_START, Len(prog))
     IN /\ memory' = store_bytes(memory, PROG_POS_START, prog, n)
        /\ panic' = IF n < Len(prog)
                    THEN Panicked("index out of bounds", PROG_POS_START + n)
                    ELSE NoPanic
  /\ at' = "loaded"
  /\ UNCHANGED <<running, pc, registers, stack, stackpointer, delay_timer,
                 sound_timer, keyboard, release_key_wait, tui, overflow_checks,
                 executed, frame_log>>

\* ------------------------------------------------------------------------
\* The embedding program steps the machine itself (execute_inst is public)
\* ------------------------------------------------------------------------
\* one call of execute_inst outside run
Step ==
  /\ at = "loaded"
  /\ panic = NoPanic
  /\ execute_inst
  /\ UNCHANGED <<overflow_checks, loop>>

\* the two bytes of an instruction word, big-endian
Bytes(w) == <<w \div 256, w % 256>>
\* a program: the word under study, then key-waits (Fx0A) that park the machine
Parked(w) == Bytes(w) \o Bytes(\hF00A) \o Bytes(\hF00A)

\* register values the embedding program sets before it loads the program
ByteSamples == {0, 1, 127, 128, 255}
SampleRegisters ==
  { set_reg_v(set_reg_v(set_reg_v(new_registers, 0, v0), 1, v1), 15, vf) :
      v0 \in ByteSamples, v1 \in ByteSamples, vf \in ByteSamples }

\* the instruction words stepped
StepWords ==
  { \h5001, \h5010, \h500F, \h9010, \h9013,
    \h8018, \h8019, \h801A, \h801B, \h801C, \h801D, \h801F,
    \hE09E, \hE0A1, \hE000, \hF107, \hF017, \hF0FF, \hF015, \hF033,
    \h3000, \h3001, \h30FF, \h3180, \h317F, \h4000, \h4001, \h40FF, \h4180,
    \h7001, \h7101, \h71FF, \h7110, \h7F01, \h7000,
    \h8014, \h8104, \h8004, \h8114, \h81F4, \h80F4,
    \h8015, \h8105, \h8005, \h80F5, \h8F15, \h8017, \h8107, \h8007, \h80F7,
    \h8016, \h8106, \h8006, \h801E, \h810E, \h800E,
    \hF133, \hF055, \hF155, \hF065, \hF165, \hE19E, \hE1A1 }

Init ==
  \E regs \in SampleRegisters :
    new(PROG_POS_START, regs, TRUE)

Next ==
  \/ \E w \in StepWords : load_prog(Parked(w))
  \/ Step

Spec == Init /\ [][Next]_vars

\* ------------------------------------------------------------------------
\* Properties of single instructions
\* ------------------------------------------------------------------------
\* a step that is one call of execute_inst on a live machine: the terminal and
\* the embedding program only ever add an event or change the keyboard field
ExecStep ==
  /\ panic = NoPanic
  /\ keyboard' = keyboard
  /\ Len(events') <= Len(events)
  /\ \/ at = "loaded" /\ at' = "loaded"
     \/ at = "for" /\ executed' = executed + 1

\* the operands of the instruction word at pc as the instruction set defines them
reg_x == (val \div 256) % 16
reg_y == (val \div 16) % 16
kk == val % 256
nnn == val % 4096
Vx == get_reg_v(registers, reg_x)
Vy == get_reg_v(registers, reg_y)
VF == get_reg_v(registers, 15)

\* the instruction word at the start of the loaded program
FirstWord == byte_at(memory, PROG_POS_START) * 256 + byte_at(memory, PROG_POS_START + 1)

\* a word outside the instruction set, of the kinds C7 lists
Unrecognised ==
  \/ a \in {5, 9} /\ d # 0
  \/ a = 8 /\ d \in {8, 9, 10, 11, 12, 13, 15}
  \/ a = 14 /\ kk \notin {\h9E, \hA1}
  \/ a = 15 /\ kk \notin {\h07, \h0A, \h15, \h18, \h1E, \h29, \h33, \h55, \h65}

\* C7: a step on a word that is no recognised opcode (5xyn and 9xyn with n # 0,
\* 8xy8..8xyD, 8xyF, Ex and Fx with an unknown low byte) ends in the fatal
\* outcome "Illegal instruction" carrying the word, with pc and the registers
\* as they were.
C7_IllegalInstructionIsFatal ==
  [][ExecStep /\ Unrecognised =>
       /\ panic' = Panicked("Illegal instruction", val)
       /\ pc' = pc
       /\ registers' = registers]_vars

\* C8: 3xkk advances pc by 4 when Vx = kk and by 2 otherwise, 4xkk by 4 when
\* Vx # kk and by 2 otherwise, kk being the whole low byte of the word; no
\* register changes.
C8_SkipOnImmediate ==
  [][ExecStep /\ a \in {3, 4} =>
       /\ pc' = IF (a = 3) = (Vx = kk) THEN pc + 4 ELSE pc + 2
       /\ registers' = registers]_vars

\* C9: for x # F, 7xkk leaves (Vx + kk) mod 256 in register x, every other
\* register (VF among them) and I as they were, and pc advanced by 2.
C9_AddImmediate ==
  [][ExecStep /\ a = 7 /\ reg_x # 15 =>
       /\ registers' = set_reg_v(registers, reg_x, (Vx + kk) % 256)
       /\ pc' = pc + 2]_vars

C12_Shifts ==
  [][ExecStep /\ a = 8 /\ d \in {6, 14} /\ reg_x # 15 =>
       /\ get_reg_v(registers', reg_x) = IF d = 6 THEN Vx \div 2 ELSE (Vx * 2) % 256
       /\ get_reg_v(registers', 15) = IF d = 6 THEN Vx % 2 ELSE Vx \div 128
       /\ pc' = pc + 2]_vars

\* C15: Fx33 with I, I+1, I+2 inside memory writes the hundreds, tens and ones
\* digit of Vx to memory[I], memory[I+1], memory[I+2], leaves I and every
\* register as they were and advances pc by 2.
C15_BcdStore ==
  [][ExecStep /\ a = 15 /\ kk = \h33 /\ registers.i + 2 < MEMSIZE =>
       /\ byte_at(memory', registers.i) = Vx \div 100
       /\ byte_at(memory', registers.i + 1) = (Vx \div 10) % 10
       /\ byte_at(memory', registers.i + 2) = Vx % 10
       /\ registers' = registers
       /\ pc' = pc + 2]_vars

\* C16: with I + x inside memory, Fx55 copies registers 0..x to
\* memory[I..I+x] and changes no other byte and no register, and Fx65 copies
\* memory[I..I+x] to registers 0..x and changes no other register and no byte;
\* each leaves I = I + x + 1 and pc advanced by 2. (So a store at I0, I reset
\* to I0, and a load give registers 0..x their values from before the store.)
C16_BulkStoreLoad ==
  [][ExecStep /\ a = 15 /\ kk \in {\h55, \h65} /\ registers.i + reg_x < MEMSIZE =>
       /\ panic' = NoPanic
       /\ pc' = pc + 2
       /\ registers'.i = registers.i + reg_x + 1
       /\ IF kk = \h55
          THEN /\ registers'.v = registers.v
               /\ \A addr \in 0..(MEMSIZE - 1) :
                    byte_at(memory', addr) =
                      IF addr \in registers.i..(registers.i + reg_x)
                      THEN get_reg_v(registers, addr - registers.i)
                      ELSE byte_at(memory, addr)
          ELSE /\ memory' = memory
               /\ \A r \in 0..15 :
                    get_reg_v(registers', r) =
                      IF r <= reg_x THEN byte_at(memory, registers.i + r)
                      ELSE get_reg_v(registers, r)]_vars

\* C19: with a key value 0x0..0xF in register x, Ex9E advances pc by 4 when
\* the terminal reports that key pressed and by 2 otherwise, ExA1 by 4 when it
\* reports the key not pressed and by 2 otherwise; neither is fatal and
\* neither changes a register.
C19_KeySkip ==
  [][ExecStep /\ a = 14 /\ kk \in {\h9E, \hA1} /\ Vx \in 0..15 =>
       /\ panic' = NoPanic
       /\ pc' = IF (kk = \h9E) = get_key(events, Vx) THEN pc + 4 ELSE pc + 2
       /\ registers' = registers]_vars

\* the five bytes of the glyph of a hex digit
glyph(digit) == SubSeq(font, 5 * digit + 1, 5 * digit + 5)

\* C20: in the state Chip::new produces, before any instruction runs, the 80
\* bytes from FONT_POS_START on hold the sixteen five-byte glyphs: for every
\* digit 0x0..0xF the five bytes at FONT_POS_START + 5 * digit, the address
\* Fx29 sets, are the glyph of that digit.
C20_FontAtStartup ==
  at = "new" =>
    \A digit \in 0..15 :
      [k \in 1..5 |-> byte_at(memory, FONT_POS_START + 5 * digit + k - 1)] = glyph(digit)

\* ------------------------------------------------------------------------
\* Subroutines: programs that call and return
\* ------------------------------------------------------------------------
RECURSIVE Program(_)
\* the bytes of a sequence of instruction words
Program(words) ==
  IF words = <<>> THEN <<>> ELSE Bytes(Head(words)) \o Program(Tail(words))

\* Every jump target of this executor is below 16, where memory is zero, so a
\* subroutine is the run of empty instructions from there up to the program.
StackPrograms ==
  { \* entered at 0x20A: call A at 0x20C, whose body calls B at 0x206; B
    \* returns at 0x202, A at 0x208, and the machine parks at 0x20E
    Program(<<\h3001, \h00EE, \h6000, \h2002, \h00EE, \h6001, \h2000, \hF00A>>),
    \* entered at 0x200: a call that recurses until the stack is full
    Program(<<\h2000>>),
    \* entered at 0x200: a return with nothing to return to
    Program(<<\h00EE>>) }
StackEntries == {PROG_POS_START, PROG_POS_START + 10}

InitStack ==
  \E entry \in StackEntries, checks \in BOOLEAN :
    new(entry, new_registers, checks)

NextStack ==
  \/ \E prog \in StackPrograms : load_prog(prog)
  \/ Step

SpecStack == InitStack /\ [][NextStack]_vars

IsCall == a = 2
IsRet == a = 0 /\ kk = \hEE

\* every pushed slot holds the address of a call instruction
StackHoldsCalls ==
  \A s \in 1..16 :
    s <= stackpointer =>
      byte_at(memory, stack[s]) \div 16 = 2

\* C5: 2nnn stores the address of the call itself in stack[stackpointer] and
\* increments stackpointer; 00EE decrements stackpointer and sets pc to the
\* popped address + 2; nothing else writes the stack. So every pushed slot is
\* the address p of a call still to be returned from, and the return that pops
\* it leaves pc = p + 2 and stackpointer as it was before that call.
C5_CallReturnRoundTrip ==
  /\ [](at = "loaded" /\ panic = NoPanic => StackHoldsCalls)
  /\ [][ExecStep /\ panic' = NoPanic =>
          /\ IsCall => /\ stack' = [stack EXCEPT ![stackpointer + 1] = pc]
                       /\ stackpointer' = stackpointer + 1
          /\ IsRet => /\ stackpointer' = stackpointer - 1
                      /\ pc' = stack[stackpointer' + 1] + 2
                      /\ stack' = stack
          /\ ~IsCall /\ ~IsRet => UNCHANGED <<stack, stackpointer>>]_vars

\* the call at 0x20C has returned to 0x20E with the stack empty again, after
\* the nested call at 0x206 was made and returned from
C5_Witness ==
  /\ panic = NoPanic
  /\ pc = PROG_POS_START + 14
  /\ stackpointer = 0
  /\ stack[1] = PROG_POS_START + 12
  /\ stack[2] = PROG_POS_START + 6

\* C6: while no fatal error has happened stackpointer is within the stack
\* (at most 16 addresses pushed); a call with 16 addresses pushed and a return
\* with none end in a fatal error with stackpointer, the stack and pc
\* unchanged.
C6_StackBounds ==
  /\ [](panic = NoPanic => stackpointer \in 0..16)
  /\ [][ExecStep /\ ((IsCall /\ stackpointer = 16) \/ (IsRet /\ stackpointer = 0)) =>
          /\ panic' # NoPanic
          /\ UNCHANGED <<stackpointer, stack, pc>>]_vars

\* ------------------------------------------------------------------------
\* The keyboard field and the terminal
\* ------------------------------------------------------------------------
\* keys that are pressed in the runs explored
KeySamples == {5, 9}

\* the embedding program assigns the public field Chip.keyboard between calls
set_keyboard(key) ==
  /\ at = "loaded"
  /\ panic = NoPanic
  /\ key # keyboard
  /\ keyboard' = key
  /\ UNCHANGED <<running, memory, pc, registers, stack, stackpointer, delay_timer,
                 sound_timer, release_key_wait, tui, overflow_checks, panic, loop>>

\* the terminal queues an input event: a press of a pad key, or anything else
key_event(code) ==
  /\ panic = NoPanic
  /\ Len(events) < MaxEvents
  /\ events' = Append(events, code)
  /\ UNCHANGED <<chip, pixel_bitmap, overflow_checks, panic, loop>>

\* two key-waits, then a word of family E, which always panics
KeyWaitPrograms == { Program(<<\hF10A, \hF20A, \hE000>>) }

InitKeyWait == new(PROG_POS_START, new_registers, TRUE)

NextKeyWait ==
  \/ \E prog \in KeyWaitPrograms : load_prog(prog)
  \/ Step
  \/ \E key \in {None} \cup {Some(k) : k \in KeySamples} : set_keyboard(key)
  \/ \E code \in KeySamples \cup {OTHER_EVENT} : key_event(code)

SpecKeyWait == InitKeyWait /\ [][NextKeyWait]_vars

IsKeyWait == a = 15 /\ kk = \h0A

\* C1: an execution of Fx0A with no latch and no key observed changes nothing;
\* with no latch and key k observed it stores k in register x and latches k,
\* pc staying; with k latched it leaves pc alone while k is reported pressed,
\* and at the first execution at which k is reported not pressed advances pc
\* by 2 and clears the latch.
C1_KeyWaitSafety ==
  [][ExecStep /\ IsKeyWait =>
       IF release_key_wait = None
       THEN IF keyboard = None
            THEN UNCHANGED <<pc, registers, release_key_wait>>
            ELSE /\ registers' = set_reg_v(registers, reg_x, Unwrap(keyboard))
                 /\ release_key_wait' = keyboard
                 /\ pc' = pc
       ELSE IF get_key(events, Unwrap(release_key_wait))
            THEN UNCHANGED <<pc, registers, release_key_wait>>
            ELSE /\ pc' = pc + 2
                 /\ release_key_wait' = None
                 /\ registers' = registers]_vars

\* the first key-wait (F10A) took key 5 into register 1, saw it released and
\* advanced; the second (F20A) has latched key 9 and is waiting for its release
C1_Witness ==
  /\ panic = NoPanic
  /\ pc = PROG_POS_START + 2
  /\ get_reg_v(registers, 1) = 5
  /\ get_reg_v(registers, 2) = 9
  /\ release_key_wait = Some(9)

\* C23: whenever release_key_wait holds a key k, the instruction at pc is a
\* key-wait whose destination register x holds k; and a step taken with the
\* latch set executes that key-wait and leaves pc where it is unless it clears
\* the latch.
C23_LatchInvariant ==
  /\ [](release_key_wait # None =>
          /\ IsKeyWait
          /\ Vx = Unwrap(release_key_wait))
  /\ [][ExecStep /\ release_key_wait # None =>
          /\ IsKeyWait
          /\ registers' = registers
          /\ release_key_wait' \in {release_key_wait, None}
          /\ release_key_wait' # None => pc' = pc]_vars

\* F10A has latched key 5 and is still at pc with the key held down (its press
\* is the next event of the terminal), the keyboard field having moved on to 9
C23_Witness ==
  /\ panic = NoPanic
  /\ pc = PROG_POS_START
  /\ release_key_wait = Some(5)
  /\ get_reg_v(registers, 1) = 5
  /\ keyboard = Some(9)
  /\ events = <<5, 5>>

\* ------------------------------------------------------------------------
\* Chip::run (chip.rs 128-151)
\* ------------------------------------------------------------------------
\* Duration::from_millis(1 / SCREEN_REFRESH_RATE as u64), in nanoseconds
target_frame_time == (1 \div SCREEN_REFRESH_RATE) * 1000000
\* the bound of the for loop
instructions_per_frame == INSTRUCTION_FREQUENCY \div SCREEN_REFRESH_RATE

\* run is entered: running = true, and the first frame starts
run_enter ==
  /\ at = "loaded"
  /\ panic = NoPanic
  /\ running' = TRUE
  /\ at' = "for"
  /\ executed' = 0
  /\ frame_log' = <<>>
  /\ UNCHANGED <<memory, pc, registers, stack, stackpointer, delay_timer,
                 sound_timer, keyboard, release_key_wait, tui, overflow_checks, panic>>

\* one turn of the for loop
run_execute_inst ==
  /\ at = "for"
  /\ panic = NoPanic
  /\ executed < instructions_per_frame
  /\ execute_inst
  /\ executed' = executed + 1
  /\ frame_log' = Append(frame_log, "execute_inst")
  /\ UNCHANGED <<at, overflow_checks>>

\* a loop that leaves the for loop early while a key-wait is pending
run_update_screen_when_waiting ==
  /\ at = "for"
  /\ panic = NoPanic
  /\ executed >= instructions_per_frame \/ (a = 15 /\ low_byte_EF = 10)
  /\ at' = "timers"
  /\ frame_log' = Append(frame_log, "update_screen")
  /\ UNCHANGED <<chip, tui, overflow_checks, panic, executed>>

\* the for loop is done: self.interface.update_screen()
run_update_screen ==
  /\ at = "for"
  /\ panic = NoPanic
  /\ executed >= instructions_per_frame
  /\ at' = "timers"
  /\ frame_log' = Append(frame_log, "update_screen")
  /\ UNCHANGED <<chip, tui, overflow_checks, panic, executed>>

\* timer -= 1 on a u8: traps at 0 in a build with overflow checks, wraps to 255
\* otherwise
decrement_traps(timer) == timer = 0 /\ overflow_checks
decrement(timer) == (timer + 255) % 256

\* self.delay_timer -= 1; self.sound_timer -= 1;
run_timers ==
  /\ at = "timers"
  /\ panic = NoPanic
  /\ IF decrement_traps(delay_timer)
     THEN /\ panic' = Panicked("attempt to subtract with overflow", delay_timer)
          /\ UNCHANGED <<delay_timer, sound_timer, frame_log, at>>
     ELSE /\ delay_timer' = decrement(delay_timer)
          /\ IF decrement_traps(sound_timer)
             THEN /\ panic' = Panicked("attempt to subtract with overflow", sound_timer)
                  /\ frame_log' = Append(frame_log, "delay_timer")
                  /\ UNCHANGED <<sound_timer, at>>
             ELSE /\ sound_timer' = decrement(sound_timer)
                  /\ frame_log' = frame_log \o <<"delay_timer", "sound_timer">>
                  /\ at' = "pace"
                  /\ panic' = NoPanic
  /\ UNCHANGED <<running, memory, pc, registers, stack, stackpointer, keyboard,
                 release_key_wait, tui, overflow_checks, executed>>

\* the end of the frame: sleep(target_frame_time - frame_duration) when the
\* frame took longer than the target, where the Duration subtraction panics
\* on a negative result; then the while condition and the next frame
run_pace(frame_duration) ==
  /\ at = "pace"
  /\ panic = NoPanic
  /\ IF frame_duration > target_frame_time /\ target_frame_time - frame_duration < 0
     THEN /\ panic' = Panicked("overflow when subtracting durations", frame_duration)
          /\ UNCHANGED <<at, executed, frame_log>>
     ELSE /\ panic' = NoPanic
          /\ IF running
             THEN /\ at' = "for"
                  /\ executed' = 0
                  /\ frame_log' = <<>>
             ELSE /\ at' = "returned"
                  /\ UNCHANGED <<executed, frame_log>>
  /\ UNCHANGED <<chip, tui, overflow_checks>>

\* a key-wait, a screen clear followed by empty instructions, and a word of
\* family E (which panics) after two instructions
RunPrograms ==
  { Program(<<\hF10A>>),
    Program(<<\h00E0, \h6105, \hF10A>>),
    Program(<<\h6001, \h00E0, \hE000>>) }

InitRun == \E checks \in BOOLEAN : new(PROG_POS_START, new_registers, checks)

RunLoop ==
  \/ run_enter
  \/ run_execute_inst
  \/ run_update_screen
  \/ run_timers
  \/ \E frame_duration \in 0..MaxElapsed : run_pace(frame_duration)

NextRun ==
  \/ \E prog \in RunPrograms : load_prog(prog)
  \/ RunLoop
  \/ \E code \in KeySamples \cup {OTHER_EVENT} : key_event(code)

SpecRun == InitRun /\ [][NextRun]_vars

\* the loop of run is one thread that keeps going until it panics
FairSpecRun == SpecRun /\ WF_vars(RunLoop)

InRun == at \in {"for", "timers", "pace"}

\* the calls of a whole frame, in order
FrameCalls ==
  [k \in 1..instructions_per_frame |-> "execute_inst"]
    \o <<"update_screen", "delay_timer", "sound_timer">>
IsPrefix(s, t) == Len(s) <= Len(t) /\ \A k \in 1..Len(s) : s[k] = t[k]

\* C3: the calls of a frame are, in this order, instructions_per_frame
\* instruction steps, one update_screen, one tick of each timer; the frame ends
\* only with all of them made, also while a key-wait is pending.
C3_FrameOrdering ==
  /\ IsPrefix(frame_log, FrameCalls)
  /\ at = "timers" => Len(frame_log) = instructions_per_frame + 1
  /\ at = "pace" => frame_log = FrameCalls
  /\ at = "for" => Len(frame_log) = executed /\ executed <= instructions_per_frame

\* a whole frame was run with the key-wait F10A pending at pc throughout
C3_Witness ==
  /\ at = "pace"
  /\ panic = NoPanic
  /\ frame_log = FrameCalls
  /\ pc = PROG_POS_START
  /\ IsKeyWait

\* the step that ticks the timers
TickStep == at = "timers" /\ panic = NoPanic /\ events' = events

floor_decrement(timer) == IF timer > 0 THEN timer - 1 ELSE 0

\* C4: the end-of-frame tick lowers each timer by 1 when it is above 0 and
\* leaves it at 0 otherwise; it never wraps a timer to 255 and never fails.
C4_TimerFloor ==
  [][TickStep =>
       /\ delay_timer' = floor_decrement(delay_timer)
       /\ sound_timer' = floor_decrement(sound_timer)
       /\ panic' = NoPanic]_vars

\* the terminal holds a press of pad key k that nothing has read yet
KeyPressedInTerminal == \E k \in 1..Len(events) : events[k] \in 0..15

\* C2: while Fx0A is pending inside run and the capability has a key press to
\* report, the executor eventually takes the key and pc moves past the
\* instruction (unless the process has died meanwhile).
C2_KeyWaitLiveness ==
  (InRun /\ panic = NoPanic /\ IsKeyWait /\ KeyPressedInTerminal)
    ~> (~IsKeyWait \/ panic # NoPanic)

\* the step that ends a frame: the pacing and the loop condition
PaceStep == at = "pace" /\ panic = NoPanic /\ events' = events

\* C21: at the end of a frame the loop blocks for max(0, target - elapsed);
\* whatever the frame's work took, as long as the target or longer included,
\* the pacing is no error and the loop goes on to its condition.
C21_FramePacing ==
  [][PaceStep =>
       /\ panic' = NoPanic
       /\ at' = IF running THEN "for" ELSE "returned"]_vars

\* ------------------------------------------------------------------------
\* Jumps
\* ------------------------------------------------------------------------
\* Every target the executor computes is below the program, where memory is
\* zero: the machine walks the empty instructions from there on.
JumpWords == { \h1234, \h1200, \h1000, \h1ABC, \hB200, \hB234, \hB000, \hBFFF }

JumpRegisters == { set_reg_v(new_registers, 0, v0) : v0 \in ByteSamples }

InitJump == \E regs \in JumpRegisters : new(PROG_POS_START, regs, TRUE)

NextJump ==
  \/ \E w \in JumpWords : load_prog(Parked(w))
  \/ Step

SpecJump == InitJump /\ [][NextJump]_vars

\* C13: 1nnn sets pc to nnn, the low 12 bits of the word, with no further
\* increment, and changes no register, stack slot, stack pointer, timer or
\* memory byte.
C13_Jump ==
  [][ExecStep /\ a = 1 =>
       /\ pc' = nnn
       /\ registers' = registers
       /\ UNCHANGED <<stack, stackpointer, delay_timer, sound_timer, memory>>]_vars

\* C14: Bnnn sets pc to the sum nnn + V0, nnn being the low 12 bits of the
\* word, with no further increment.
C14_JumpWithOffset ==
  [][ExecStep /\ a = 11 => pc' = nnn + get_reg_v(registers, 0)]_vars

\* ------------------------------------------------------------------------
\* Sprites
\* ------------------------------------------------------------------------
\* the embedding program writes the public field Chip.memory before it loads
\* the program: the only way sprite rows get to where I can point, since Annn
\* sets I to b | c | d < 16 and the Fx arms that set I never match
poke_memory(base, bytes) ==
  /\ at = "new"
  /\ panic = NoPanic
  /\ memory = [addr \in {} |-> 0]
  /\ memory' = store_bytes(memory, base, bytes, Len(bytes))
  /\ UNCHANGED <<running, pc, registers, stack, stackpointer, delay_timer,
                 sound_timer, keyboard, release_key_wait, tui, overflow_checks,
                 panic, loop>>

\* sprites of two rows, written at address 0 (the I of Chip::new)
SpriteSamples == { <<\hFF, \h81>>, <<\h01, \h00>>, <<\h00, \h00>>, <<\h80, \h01>> }

\* draw twice at (V0, V1), on a blank screen or after a draw at (V1, V0)
DrawPrograms ==
  { Program(<<\hD012, \hD012, \hF00A>>),
    Program(<<\hD102, \hD012, \hD012, \hF00A>>) }

DrawRegisters ==
  { set_reg_v(set_reg_v(new_registers, 0, v0), 1, v1) :
      v0 \in {0, 1, 60, 63, 127}, v1 \in {0, 1, 31, 33} }

InitDraw == \E regs \in DrawRegisters : new(PROG_POS_START, regs, TRUE)

NextDraw ==
  \/ \E sprite \in SpriteSamples : poke_memory(0, sprite)
  \/ \E prog \in DrawPrograms : load_prog(prog)
  \/ Step

SpecDraw == InitDraw /\ [][NextDraw]_vars

\* the n rows that Dxyn at pc reads at I
rows == [k \in 1..d |-> byte_at(memory, registers.i + k - 1)]
IsDraw == at = "loaded" /\ panic = NoPanic /\ a = 13

\* C17: drawing the same rows twice at the same x, y restores the grid; on a
\* blank grid the first draw returns false and the second true whenever the
\* sprite has a set bit; and Dxyn sets VF to 1 exactly when its draw erased a
\* pixel (draw_sprite returned true), else 0.
C17_SpriteInvolution ==
  /\ [](IsDraw =>
          \A first \in {draw_sprite(pixel_bitmap, Vx, Vy, rows)} :
            \A second \in {draw_sprite(first.bitmap, Vx, Vy, rows)} :
              /\ second.bitmap = pixel_bitmap
              /\ (pixel_bitmap = {} /\ \E k \in 1..Len(rows) : rows[k] # 0) =>
                   (~first.erased /\ second.erased))
  /\ [][ExecStep /\ a = 13 /\ panic' = NoPanic =>
          /\ get_reg_v(registers', 15) = IF pixel_bitmap \ pixel_bitmap' # {} THEN 1 ELSE 0
          /\ pc' = pc + 2]_vars

\* the pixels under the set bits of a sprite at wrapped coordinates
WrappedPixels(x, y, sprite) ==
  { ((x + p[2]) % SCREEN_WIDTH) + ((y + p[1]) % SCREEN_HEIGHT) * SCREEN_WIDTH :
      p \in { q \in (0..(Len(sprite) - 1)) \X (0..7) :
                (sprite[q[1] + 1] \div (2 ^ (7 - q[2]))) % 2 = 1 } }

\* C18: the bit at column bit of row row of a sprite drawn at x, y is
\* XOR-composited onto pixel ((x + bit) mod SCREEN_WIDTH, (y + row) mod
\* SCREEN_HEIGHT): columns and rows past an edge are drawn at the opposite
\* edge and no set bit is dropped.
C18_SpriteWrapping ==
  [][ExecStep /\ a = 13 /\ panic' = NoPanic =>
       LET wrapped == WrappedPixels(Vx, Vy, rows)
       IN pixel_bitmap' = (pixel_bitmap \ wrapped) \cup (wrapped \ pixel_bitmap)]_vars

\* ------------------------------------------------------------------------
\* Memory written by instructions
\* ------------------------------------------------------------------------
\* programs around the words for Fx1E, Fx29, Fx33 and Fx55
MemoryPrograms ==
  { Program(<<\hF01E, \hF055, \hF00A>>),
    Program(<<\hF029, \hF033, \hF00A>>),
    Program(<<\hA00F, \h6105, \h8014, \hF155, \hF00A>>),
    Program(<<\hA00F, \hD011, \hF133, \hF00A>>) }

InitMemory == \E regs \in SampleRegisters : new(PROG_POS_START, regs, TRUE)

NextMemory ==
  \/ \E prog \in MemoryPrograms : load_prog(prog)
  \/ Step

SpecMemory == InitMemory /\ [][NextMemory]_vars

\* the font-table region, and the bytes of the loaded program image
FontZone == FONT_POS_START..(FONT_POS_START + Len(font) - 1)
ImageZone == { addr \in DOMAIN memory : addr >= PROG_POS_START }

====
